---- MODULE Spec2Model ----
(***************************************************************************)
(* A model of the OpenType font subsetter (src/src/font/subset.rs).        *)
(*                                                                         *)
(* One run of Subsetter::subset is a behaviour: the caller's font, chars   *)
(* and tag iterator are the inputs, the fields of the Subsetter struct are *)
(* the state, and the steps of Subsetter::run are the actions.  Bytes are  *)
(* numbers 0..255, byte strings are sequences of them, big-endian.         *)
(*                                                                         *)
(* The second part models the flex layouter (src/src/layout/flex.rs): the  *)
(* fields of the FlexLayouter struct are the state, add, add_glue and the  *)
(* steps of finish are the actions.  The two programs share nothing; each  *)
(* specification leaves the other program's variables as constructed.      *)
(***************************************************************************)
EXTENDS Integers, Sequences, FiniteSets, TLC

VARIABLES
    font,       \* the original font (one of FontIds)
    chars,      \* Subsetter.chars: the requested characters, in order
    glyphs,     \* Subsetter.glyphs: old glyph ids, in order
    records,    \* Subsetter.records: the output table records
    body,       \* Subsetter.body: the output bytes
    pc,         \* position in Subsetter::run
    i,          \* the cursor of the composite work-list in find_glyphs
    table,      \* the item last taken from the caller's tag iterator
    taken,      \* how many items the caller's tag iterator has yielded
    err,        \* the FontError returned, NoError while there is none
    out         \* the Font returned by run, NoFont while there is none

subset_vars == <<font, chars, glyphs, records, body, pc, i, table, taken, err, out>>

VARIABLES
    ctx,          \* FlexLayouter.ctx: the FlexContext
    usable_width, \* FlexLayouter.usable_width
    units,        \* FlexLayouter.units: the units added so far
    stack,        \* FlexLayouter.stack: the calls made on the StackLayouter
    run,          \* FlexLayouter.run: the line being filled
    cached_glue,  \* FlexLayouter.cached_glue: an Option, << >> for None
    fpc,          \* position in FlexLayouter::finish
    todo,         \* finish: the units moved out of the layouter
    unit_index,   \* finish: how many units the loop has taken
    depth,        \* the calls of layout_box on the call stack
    result        \* what finish returned, NoResult while it has not

flex_vars == <<ctx, usable_width, units, stack, run, cached_glue, fpc, todo,
               unit_index, depth, result>>

vars == <<font, chars, glyphs, records, body, pc, i, table, taken, err, out,
          ctx, usable_width, units, stack, run, cached_glue, fpc, todo,
          unit_index, depth, result>>

----------------------------------------------------------------------------
(* Bounds of the model.                                                    *)

\* The caller's chars and the items its tag iterator yields are at most
\* MaxWork together, and the iterator yields at most MaxTags items.
MaxWork == 4
MaxTags == 3

----------------------------------------------------------------------------
(* Integer widths and byte encodings (byteorder's BE writers).             *)

\* A u16 is a number below U16.  A u32 that may use all its 32 bits (a
\* checksum) is the pair <<high half, low half>> of u16; the other u32 of
\* the subsetter (offsets, lengths, counts) stay far below 2^31 in every
\* state of the model and are plain numbers.
U16 == 65536

AsU16(x) == x % U16

\* u32::wrapping_add on pairs of halves
WrappingAdd(a, b) ==
    << (a[1] + b[1] + ((a[2] + b[2]) \div U16)) % U16, (a[2] + b[2]) % U16 >>

WriteU16(x) == << (x \div 256) % 256, x % 256 >>
WriteU32(x) == << (x \div 16777216) % 256, (x \div 65536) % 256,
                  (x \div 256) % 256, x % 256 >>
\* write_i16: two's complement
WriteI16(x) == WriteU16((x + U16) % U16)

ReadU16(b, p) == b[p + 1] * 256 + b[p + 2]
ReadU32(b, p) == b[p + 1] * 16777216 + b[p + 2] * 65536 + b[p + 3] * 256 + b[p + 4]
\* a u32 read as its pair of halves
ReadWord(b, p) == << ReadU16(b, p), ReadU16(b, p + 2) >>
\* a pair of halves written as a u32
WriteWord(w) == WriteU16(w[1]) \o WriteU16(w[2])

\* The bytes b[from .. to) of a byte string, positions counted from 0.
Slice(b, from, to) == SubSeq(b, from + 1, to)

RECURSIVE Pow2(_)
Pow2(n) == IF n = 0 THEN 1 ELSE 2 * Pow2(n - 1)

\* bit test: x & mask != 0 for a one-bit mask
HasBit(x, mask) == (x \div mask) % 2 = 1

----------------------------------------------------------------------------
(* Errors and results.                                                     *)

Error(kind, msg, arg) == [kind |-> kind, msg |-> msg, arg |-> arg]
NoError == Error("Ok", "", << >>)
InvalidFont(msg) == Error("InvalidFont", msg, << >>)
UnsupportedTable(tag) == Error("UnsupportedTable", "", tag)
UnsupportedFont(msg) == Error("UnsupportedFont", msg, << >>)
MissingCharacter(c) == Error("MissingCharacter", "", << c >>)
MissingTable(tag) == Error("MissingTable", "", tag)
IoError == Error("Io", "unexpected eof", << >>)

NoFont == [some |-> FALSE, program |-> << >>, mapping |-> << >>,
           widths |-> << >>, default_glyph |-> 0]

----------------------------------------------------------------------------
(* Tags: four ASCII bytes, compared bytewise.                              *)

TagHead == << 104, 101, 97, 100 >>
TagName == << 110, 97, 109, 101 >>
TagOS2  == << 79, 83, 47, 50 >>
TagPost == << 112, 111, 115, 116 >>
TagCvt  == << 99, 118, 116, 32 >>
TagFpgm == << 102, 112, 103, 109 >>
TagPrep == << 112, 114, 101, 112 >>
TagGasp == << 103, 97, 115, 112 >>
TagHhea == << 104, 104, 101, 97 >>
TagHmtx == << 104, 109, 116, 120 >>
TagMaxp == << 109, 97, 120, 112 >>
TagCmap == << 99, 109, 97, 112 >>
TagGlyf == << 103, 108, 121, 102 >>
TagLoca == << 108, 111, 99, 97 >>
TagDSIG == << 68, 83, 73, 71 >>
\* strings that are no tags: "abc" and the four bytes of "glä"
StrShort    == << 97, 98, 99 >>
StrNonAscii == << 103, 108, 195, 164 >>

CopiedTags == { TagHead, TagName, TagOS2, TagPost, TagCvt, TagFpgm, TagPrep, TagGasp }
SubsetTags == { TagHhea, TagHmtx, TagMaxp, TagCmap, TagGlyf, TagLoca }

\* What the caller's tag iterator may yield: tags that are copied, tags that
\* are subsetted, a tag the subsetter does not know, and two strings that are
\* no tags.
Requests == { TagHead, TagName, TagOS2, TagPost, TagCvt } \cup SubsetTags
               \cup { TagDSIG, StrShort, StrNonAscii }

\* str.parse::<Tag>(): a tag is exactly four ASCII bytes.
ParseOk(s) == Len(s) = 4 /\ \A k \in 1..Len(s) : s[k] < 128

\* Ord for Tag: bytewise, lexicographic.
RECURSIVE TagLess(_, _)
TagLess(a, b) ==
    IF a = << >> \/ b = << >> THEN a = << >> /\ b # << >>
    ELSE IF a[1] # b[1] THEN a[1] < b[1]
    ELSE TagLess(Tail(a), Tail(b))

----------------------------------------------------------------------------
(* The input fonts.  A font is named by its id; what the OpenType reader   *)
(* and the Font value expose of it is given by the operators below.        *)
(*   ttf0: TrueType, short loca format, composite of composite, an empty   *)
(*         glyph, a char mapped to the default glyph, a DSIG table.        *)
(*   ttf1: TrueType, long loca format, odd glyph lengths, cyclic           *)
(*         composites, a composite naming a glyph the font does not have,  *)
(*         two chars mapped to one glyph, a truncated post table.          *)
(*   cff:  CFF outlines.                                                   *)

FontIds == { "ttf0", "ttf1", "cff" }

\* The characters a caller may request: a, b, c, a-umlaut, double exclamation mark.
Chars == { 97, 98, 99, 228, 8252 }

\* reader.outlines()
Outlines(f) == IF f = "cff" THEN "CFF" ELSE "TrueType"

\* font.default_glyph
DefaultGlyph(f) == 0

\* Header.index_to_loc_format of the head table
IndexToLocFormat(f) == IF f = "ttf0" THEN 0 ELSE 1

\* CharMap: the pairs <<char, glyph id>> of the font's character map
CharMapPairs(f) ==
    CASE f = "ttf0" -> { <<97, 1>>, <<98, 2>>, <<228, 3>>, <<8252, 0>> }
      [] f = "ttf1" -> { <<97, 1>>, <<98, 2>>, <<99, 3>>, <<228, 4>>, <<8252, 1>> }
      [] OTHER      -> { <<97, 1>> }

\* The glyphs of the glyf table, glyph id g at index g + 1, each as its bytes:
\* numberOfContours (i16), then for a simple glyph its data, for a composite
\* one the bounding box (8 bytes) and the component records
\* flags (u16), glyphIndex (u16), arguments, transform.
GlyphData(f) ==
    CASE f = "ttf0" ->
           << \* 0: .notdef, simple
              << 0, 1, 0, 0 >>,
              \* 1: a, simple
              << 0, 1, 0, 10, 0, 20 >>,
              \* 2: b, no outline
              << >>,
              \* 3: a-umlaut = glyph 1 (MORE_COMPONENTS | ARG_1_AND_2_ARE_WORDS
              \*               | WE_HAVE_A_SCALE | WE_HAVE_AN_X_AND_Y_SCALE: the
              \*               scale flag decides, 2 transform bytes)
              \*             + glyph 4 (WE_HAVE_A_SCALE)
              << 255, 255, 0, 0, 0, 0, 0, 1, 0, 1,
                 0, 105, 0, 1, 0, 0, 0, 0, 64, 0,
                 0, 8, 0, 4, 1, 2, 64, 0 >>,
              \* 4: diaeresis = glyph 5 (WE_HAVE_INSTRUCTIONS), 2 instruction bytes
              << 255, 255, 0, 0, 0, 0, 0, 1, 0, 1,
                 1, 0, 0, 5, 3, 4,
                 0, 2, 77, 78 >>,
              \* 5: dot, simple
              << 0, 1, 9, 9 >> >>
      [] f = "ttf1" ->
           << \* 0: .notdef, simple, 3 bytes
              << 0, 1, 5 >>,
              \* 1: a, simple, 5 bytes
              << 0, 2, 1, 2, 3 >>,
              \* 2: b = glyph 4 (WE_HAVE_AN_X_AND_Y_SCALE)
              << 255, 255, 0, 0, 0, 0, 0, 2, 0, 2,
                 0, 64, 0, 4, 1, 1, 64, 0, 32, 0 >>,
              \* 3: c = glyph 9, which the font does not have
              << 255, 255, 0, 0, 0, 0, 0, 3, 0, 3,
                 0, 0, 0, 9, 0, 0 >>,
              \* 4: a-umlaut = glyph 2 (MORE_COMPONENTS | WE_HAVE_A_TWO_BY_TWO)
              \*             + glyph 4 itself
              << 255, 255, 0, 0, 0, 0, 0, 4, 0, 4,
                 0, 160, 0, 2, 7, 7, 64, 0, 0, 0, 0, 0, 64, 0,
                 0, 0, 0, 4, 8, 8 >> >>
      [] OTHER -> << >>

NumGlyphs(f) == Len(GlyphData(f))

\* The raw glyf table: the glyphs' bytes one after the other.
RECURSIVE Concat(_)
Concat(ss) == IF ss = << >> THEN << >> ELSE Head(ss) \o Concat(Tail(ss))

GlyfTable(f) == Concat(GlyphData(f))

\* The horizontal metrics of the hmtx table, per glyph id:
\* <<advance_width, left_side_bearing>>
Metrics(f) ==
    CASE f = "ttf0" -> << <<500, 0>>, <<520, 10>>, <<540, -3>>,
                          <<520, 10>>, <<0, 100>>, <<0, 110>> >>
      [] f = "ttf1" -> << <<600, 0>>, <<610, -1>>, <<620, 2>>, <<630, 3>>, <<640, 4>> >>
      [] OTHER      -> << >>

\* font.widths, per glyph id
FontWidths(f) == [g \in 1..Len(Metrics(f)) |-> Metrics(f)[g][1]]

\* The raw bytes of the tables that are copied or patched, by tag.
RawTable(f, tag) ==
    CASE f = "ttf0" /\ tag = TagHead -> << 0, 1, 0, 0, 95, 15, 60, 245, 0, 0 >>
      [] f = "ttf0" /\ tag = TagHhea -> << 0, 1, 0, 0, 3, 232, 0, 6 >>
      [] f = "ttf0" /\ tag = TagMaxp -> << 0, 1, 0, 0, 0, 6, 0, 40, 0, 2 >>
      [] f = "ttf0" /\ tag = TagName -> << 255, 255, 255, 255, 255, 255, 255, 254, 65 >>
      [] f = "ttf0" /\ tag = TagDSIG -> << 0, 0, 0, 1 >>
      [] f = "ttf1" /\ tag = TagHead -> << 0, 1, 0, 0, 95, 15, 60, 245, 0, 1, 7 >>
      [] f = "ttf1" /\ tag = TagHhea -> << 0, 1, 0, 0, 0, 5 >>
      [] f = "ttf1" /\ tag = TagMaxp -> << 0, 0, 80, 0, 0, 5, 9 >>
      [] f = "ttf1" /\ tag = TagOS2  -> << 0, 4, 1, 144, 2, 188 >>
      [] tag = TagGlyf -> GlyfTable(f)
      [] OTHER -> << >>

\* Whether the byte range of the table's record lies inside font.program
\* (the post record of ttf1 points past the end of the file).
RangeInProgram(f, tag) == ~(f = "ttf1" /\ tag = TagPost)

\* reader.tables(): the tags of the input's table directory
FontTables(f) ==
    CASE f = "ttf0" -> { TagCmap, TagGlyf, TagHead, TagHhea, TagHmtx, TagLoca,
                         TagMaxp, TagName, TagDSIG }
      [] f = "ttf1" -> { TagCmap, TagGlyf, TagHead, TagHhea, TagHmtx, TagLoca,
                         TagMaxp, TagOS2, TagPost }
      [] OTHER      -> { TagHead, TagName }

----------------------------------------------------------------------------
(* The structured views of the OpenType reader.  None stands for Option's  *)
(* None.                                                                   *)

None == -1

\* CharMap::get
CharMapGet(f, c) ==
    IF \E p \in CharMapPairs(f) : p[1] = c
    THEN (CHOOSE p \in CharMapPairs(f) : p[1] = c)[2]
    ELSE None

\* Locations::offset: the byte offset of glyph g in glyf; g may be one past
\* the last glyph.
RECURSIVE LocaOffset(_, _)
LocaOffset(f, g) ==
    IF g < 0 \/ g > NumGlyphs(f) THEN None
    ELSE IF g = 0 THEN 0
    ELSE LocaOffset(f, g - 1) + Len(GlyphData(f)[g])

\* Locations::length
LocaLength(f, g) ==
    IF g < 0 \/ g >= NumGlyphs(f) THEN None
    ELSE LocaOffset(f, g + 1) - LocaOffset(f, g)

\* HorizontalMetrics::get is Some
HasMetrics(f, g) == 0 <= g /\ g < Len(Metrics(f))

\* HorizontalMetrics::get, for a glyph that has metrics
HmtxGet(f, g) == Metrics(f)[g + 1]

\* The transform bytes of a component record, by its flags.
TransformLen(flags) ==
    IF HasBit(flags, 8) THEN 2
    ELSE IF HasBit(flags, 64) THEN 4
    ELSE IF HasBit(flags, 128) THEN 8
    ELSE 0

\* The bytes to skip after glyphIndex: arguments and transform.
SkipLen(flags) == (IF HasBit(flags, 1) THEN 4 ELSE 2) + TransformLen(flags)

\* Glyph.composites: the glyph ids of the component records of a glyph,
\* read from position p of its bytes d.
RECURSIVE ComponentsFrom(_, _)
ComponentsFrom(d, p) ==
    IF p + 4 > Len(d) THEN << >>
    ELSE LET flags == ReadU16(d, p)
             index == ReadU16(d, p + 2)
         IN  IF HasBit(flags, 32)
             THEN << index >> \o ComponentsFrom(d, p + 4 + SkipLen(flags))
             ELSE << index >>

\* Glyphs::get(g) is Some
HasGlyph(f, g) == 0 <= g /\ g < NumGlyphs(f)

\* Glyphs::get(g).composites, for a glyph the font has
GlyfComposites(f, g) ==
    LET d == GlyphData(f)[g + 1]
    IN  IF Len(d) >= 2 /\ ReadU16(d, 0) >= 32768
        THEN ComponentsFrom(d, 10)
        ELSE << >>

----------------------------------------------------------------------------
(* Reading raw table data.                                                 *)

\* contains_table: binary search of the input's directory
contains_table(f, tag) == tag \in FontTables(f)

\* read_table_data: the error it returns, NoError when it returns the bytes
read_table_data_err(f, tag) ==
    IF ~contains_table(f, tag) THEN MissingTable(tag)
    ELSE IF ~RangeInProgram(f, tag) THEN InvalidFont("missing table data")
    ELSE NoError

\* read_table_data: the bytes of the table
read_table_data(f, tag) == RawTable(f, tag)

----------------------------------------------------------------------------
(* The table writers.  A writer's result is the bytes it appended to body  *)
(* and the error it stopped with (NoError when it ran to its end).         *)

Written(bytes, e) == [bytes |-> bytes, err |-> e]

\* copy_table
copy_table(f, tag) ==
    IF read_table_data_err(f, tag) # NoError
    THEN Written(<< >>, read_table_data_err(f, tag))
    ELSE Written(read_table_data(f, tag), NoError)

\* subset_hhea: all but the last two bytes, then the glyph count
subset_hhea(f, gl) ==
    IF read_table_data_err(f, TagHhea) # NoError
    THEN Written(<< >>, read_table_data_err(f, TagHhea))
    ELSE LET hhea == read_table_data(f, TagHhea)
         IN  Written(Slice(hhea, 0, Len(hhea) - 2) \o WriteU16(AsU16(Len(gl))), NoError)

\* subset_maxp: the version, the glyph count, the rest
subset_maxp(f, gl) ==
    IF read_table_data_err(f, TagMaxp) # NoError
    THEN Written(<< >>, read_table_data_err(f, TagMaxp))
    ELSE LET maxp == read_table_data(f, TagMaxp)
         IN  Written(Slice(maxp, 0, 4) \o WriteU16(AsU16(Len(gl)))
                        \o Slice(maxp, 6, Len(maxp)), NoError)

\* subset_hmtx: one long metric record per glyph of gl, from index k on
RECURSIVE hmtx_writer(_, _, _, _)
hmtx_writer(f, gl, k, acc) ==
    IF k > Len(gl) THEN Written(acc, NoError)
    ELSE IF ~HasMetrics(f, gl[k]) THEN Written(acc, InvalidFont("missing glyph metrics"))
    ELSE LET m == HmtxGet(f, gl[k])
         IN  hmtx_writer(f, gl, k + 1, acc \o WriteU16(m[1]) \o WriteI16(m[2]))

subset_hmtx(f, gl) == hmtx_writer(f, gl, 1, << >>)

\* the inner loop extending a group over ascending, not consecutive, chars
RECURSIVE group_end_ascending(_, _)
group_end_ascending(cs, end) ==
    IF end + 1 < Len(cs) /\ cs[end + 2] > cs[end + 1]
    THEN group_end_ascending(cs, end + 1)
    ELSE end

\* subset_cmap, the inner loop: the end of the consecutive group that holds
\* position end (positions counted from 0)
RECURSIVE group_end(_, _)
group_end(cs, end) ==
    IF end + 1 < Len(cs) /\ cs[end + 2] = cs[end + 1] + 1
    THEN group_end(cs, end + 1)
    ELSE end

\* subset_cmap, the outer loop: the groups <<first char, last char, glyph id>>
\* of the chars from position end on
RECURSIVE cmap_groups(_, _)
cmap_groups(cs, end) ==
    IF end >= Len(cs) THEN << >>
    ELSE LET start == end
             last  == group_end(cs, end)
         IN  << << cs[start + 1], cs[last + 1], 1 + start >> >>
                \o cmap_groups(cs, last + 1)

RECURSIVE write_groups(_)
write_groups(gs) ==
    IF gs = << >> THEN << >>
    ELSE WriteU32(Head(gs)[1]) \o WriteU32(Head(gs)[2]) \o WriteU32(Head(gs)[3])
            \o write_groups(Tail(gs))

\* subset_cmap: the table header, the format 12 subtable header, the groups
subset_cmap(cs) ==
    LET groups == cmap_groups(cs, 0)
    IN  Written(WriteU16(0) \o WriteU16(1) \o WriteU16(3) \o WriteU16(1) \o WriteU32(12)
                  \o WriteU16(12) \o WriteU16(0)
                  \o WriteU32(16 + 12 * Len(groups))
                  \o WriteU32(0) \o WriteU32(Len(groups))
                  \o write_groups(groups),
                NoError)

\* position that finds the last index
position_last(gl, g) ==
    IF \E k \in 1..Len(gl) : gl[k] = g
    THEN (CHOOSE k \in 1..Len(gl) : gl[k] = g /\ \A j \in (k + 1)..Len(gl) : gl[j] # g) - 1
    ELSE None

\* glyphs.iter().position(|&g| g == glyph_index): the first index, from 0,
\* or None
position(gl, g) ==
    IF \E k \in 1..Len(gl) : gl[k] = g
    THEN (CHOOSE k \in 1..Len(gl) : gl[k] = g /\ \A j \in 1..(k - 1) : gl[j] # g) - 1
    ELSE None

\* data with the two bytes at position p overwritten by a big-endian u16
PatchU16(d, p, x) ==
    [k \in 1..Len(d) |-> IF k = p + 1 THEN (x \div 256) % 256
                         ELSE IF k = p + 2 THEN x % 256
                         ELSE d[k]]

\* subset_glyf, the component loop with the cursor at position p of the
\* glyph's bytes d: every glyphIndex replaced by its position in gl
RECURSIVE rewrite_components(_, _, _)
rewrite_components(d, p, gl) ==
    IF p + 4 > Len(d) THEN Written(d, IoError)
    ELSE LET flags       == ReadU16(d, p)
             glyph_index == ReadU16(d, p + 2)
             new_index   == position(gl, glyph_index)
         IN  IF new_index = None THEN Written(d, InvalidFont("invalid composite glyph"))
             ELSE LET patched == PatchU16(d, p + 2, AsU16(new_index))
                  IN  IF ~HasBit(flags, 32) THEN Written(patched, NoError)
                      ELSE rewrite_components(patched, p + 4 + SkipLen(flags), gl)

\* subset_glyf, one glyph's bytes: a composite glyph (numberOfContours < 0)
\* has its components rewritten, a simple one is left as it is
rewrite_glyph(d, gl) ==
    IF Len(d) < 2 THEN Written(d, IoError)
    ELSE IF ReadU16(d, 0) >= 32768 THEN rewrite_components(d, 10, gl)
    ELSE Written(d, NoError)

\* subset_glyf: the glyphs of gl from index k on, appended to acc
RECURSIVE glyf_writer(_, _, _, _)
glyf_writer(f, gl, k, acc) ==
    IF k > Len(gl) THEN Written(acc, NoError)
    ELSE LET glyph == gl[k]
             start == LocaOffset(f, glyph)
             end   == LocaOffset(f, glyph + 1)
             glyf  == read_table_data(f, TagGlyf)
         IN  IF start = None \/ end = None
             THEN Written(acc, InvalidFont("missing loca entry"))
             ELSE IF end = start THEN glyf_writer(f, gl, k + 1, acc)
             ELSE IF end < start \/ end > Len(glyf)
             THEN Written(acc, InvalidFont("missing glyph data"))
             ELSE LET r == rewrite_glyph(Slice(glyf, start, end), gl)
                  IN  IF r.err # NoError THEN Written(acc, r.err)
                      ELSE glyf_writer(f, gl, k + 1, acc \o r.bytes)

subset_glyf(f, gl) ==
    IF read_table_data_err(f, TagGlyf) # NoError
    THEN Written(<< >>, read_table_data_err(f, TagGlyf))
    ELSE glyf_writer(f, gl, 1, << >>)

\* subset_loca: the entries of the glyphs of gl from index k on with the
\* running offset, then the trailing offset
RECURSIVE loca_writer(_, _, _, _, _)
loca_writer(f, gl, k, offset, acc) ==
    IF k > Len(gl) THEN Written(acc \o WriteU32(offset), NoError)
    ELSE LET entry == IF IndexToLocFormat(f) = 0
                      THEN WriteU16(AsU16(offset \div 2))
                      ELSE WriteU32(offset)
             len   == LocaLength(f, gl[k])
         IN  IF len = None THEN Written(acc \o entry, InvalidFont("missing loca entry"))
             ELSE loca_writer(f, gl, k + 1, offset + len, acc \o entry)

subset_loca(f, gl) == loca_writer(f, gl, 1, 0, << >>)

\* subset_table with a default arm that copies the table
subset_table_copy_unknown(f, gl, cs, tag) ==
    CASE tag = TagHhea -> subset_hhea(f, gl)
      [] tag = TagHmtx -> subset_hmtx(f, gl)
      [] tag = TagMaxp -> subset_maxp(f, gl)
      [] tag = TagCmap -> subset_cmap(cs)
      [] tag = TagGlyf -> subset_glyf(f, gl)
      [] tag = TagLoca -> subset_loca(f, gl)
      [] OTHER -> copy_table(f, tag)

\* subset_table: the writer of a tag the input contains
subset_table(f, gl, cs, tag) ==
    CASE tag \in CopiedTags -> copy_table(f, tag)
      [] tag = TagHhea -> subset_hhea(f, gl)
      [] tag = TagHmtx -> subset_hmtx(f, gl)
      [] tag = TagMaxp -> subset_maxp(f, gl)
      [] tag = TagCmap -> subset_cmap(cs)
      [] tag = TagGlyf -> subset_glyf(f, gl)
      [] tag = TagLoca -> subset_loca(f, gl)
      [] OTHER -> Written(<< >>, UnsupportedTable(tag))

\* calculate_check_sum: the big-endian u32 words of the data from position p
\* on, added to sum with wrap-around; bytes after the last whole word are
\* left out (chunks_exact)
RECURSIVE check_sum_from(_, _, _)
check_sum_from(data, p, sum) ==
    IF p + 4 > Len(data) THEN sum
    ELSE check_sum_from(data, p + 4, WrappingAdd(sum, ReadWord(data, p)))

calculate_check_sum(data) == check_sum_from(data, 0, << 0, 0 >>)

\* the zero bytes that pad a table of n bytes to a multiple of four
RECURSIVE Zeroes(_)
Zeroes(n) == IF n = 0 THEN << >> ELSE << 0 >> \o Zeroes(n - 1)

Padding(n) == Zeroes((4 - (n % 4)) % 4)

\* the record with the checksum taken before the padding
TableRecord_unpadded(tag, start, bytes) ==
    [tag       |-> tag,
     check_sum |-> calculate_check_sum(bytes),
     offset    |-> start,
     length    |-> Len(bytes)]

\* write_table_body: the record of a table whose writer appended bytes to a
\* body of start bytes
TableRecord(tag, start, bytes) ==
    [tag       |-> tag,
     check_sum |-> calculate_check_sum(bytes \o Padding(Len(bytes))),
     offset    |-> start,
     length    |-> Len(bytes)]

----------------------------------------------------------------------------
(* find_glyphs.                                                            *)

\* the first index of the sequence s that is in the set bad, Len(s) + 1
\* when none is: where a loop over s with an early return stops
FirstOf(s, bad) ==
    IF bad = { } THEN Len(s) + 1 ELSE CHOOSE k \in bad : \A j \in bad : k <= j

\* the glyphs of the chars cs, pushed onto gl one after the other, up to the
\* first char the character map does not have
push_chars(f, cs, gl) ==
    LET stop == FirstOf(cs, { k \in 1..Len(cs) : CharMapGet(f, cs[k]) = None })
    IN  Written(gl \o [k \in 1..(stop - 1) |-> CharMapGet(f, cs[k])],
                IF stop > Len(cs) THEN NoError ELSE MissingCharacter(cs[stop]))

\* push_composites with the presence test run against the last entry only
RECURSIVE push_composites_last(_, _)
push_composites_last(gl, composites) ==
    IF composites = << >> THEN gl
    ELSE IF gl[Len(gl)] # Head(composites)
    THEN push_composites_last(Append(gl, Head(composites)), Tail(composites))
    ELSE push_composites_last(gl, Tail(composites))

\* the composites of one glyph, each pushed onto gl unless gl holds it
RECURSIVE push_composites(_, _)
push_composites(gl, composites) ==
    IF composites = << >> THEN gl
    ELSE IF \A k \in 1..Len(gl) : gl[k] # Head(composites)
    THEN push_composites(Append(gl, Head(composites)), Tail(composites))
    ELSE push_composites(gl, Tail(composites))

\* the condition of the work-list loop: i < self.glyphs.len() as u16
more_glyphs(cursor, gl) == cursor < AsU16(Len(gl))

----------------------------------------------------------------------------
(* write_header.                                                           *)

\* u16 arithmetic.  An overflow panics in a build with overflow checks
\* (checks) and wraps around in a build without them; Panic and NoReturn
\* stand for a panic and for a loop that never ends.
Panic == -2
NoReturn == -3

MulU16(a, b, checks) ==
    IF checks /\ a * b >= U16 THEN Panic ELSE (a * b) % U16

AddU16(a, b, checks) ==
    IF checks /\ a + b >= U16 THEN Panic ELSE (a + b) % U16

SubU16(a, b, checks) ==
    IF checks /\ a < b THEN Panic ELSE (a - b + U16) % U16

\* the loop with < for <=
RECURSIVE max_power_loop_strict(_, _, _)
max_power_loop_strict(max_power, num_tables, checks) ==
    IF checks /\ max_power * 2 >= U16 THEN Panic
    ELSE IF (max_power * 2) % U16 >= num_tables THEN max_power
    ELSE IF (max_power * 2) % U16 = 0 THEN NoReturn
    ELSE max_power_loop_strict((max_power * 2) % U16, num_tables, checks)

\* the loop  while max_power * 2 <= num_tables { max_power *= 2 }  in u16:
\* max_power * 2 panics on overflow in a build with overflow checks and
\* wraps around in one without; once it has wrapped to 0, max_power is 0
\* and the condition 0 <= num_tables holds at every turn
RECURSIVE max_power_loop(_, _, _)
max_power_loop(max_power, num_tables, checks) ==
    IF checks /\ max_power * 2 >= U16 THEN Panic
    ELSE IF (max_power * 2) % U16 > num_tables THEN max_power
    ELSE IF (max_power * 2) % U16 = 0 THEN NoReturn
    ELSE max_power_loop((max_power * 2) % U16, num_tables, checks)

\* min(max_power, num_tables)
max_power_of(num_tables, checks) ==
    LET m == max_power_loop(1, num_tables, checks)
    IN  IF m < 0 THEN m
        ELSE IF m < num_tables THEN m ELSE num_tables

\* (max_power as f32).log2() as u16: the cast of -inf saturates to 0
RECURSIVE log2_u16(_)
log2_u16(x) == IF x <= 1 THEN 0 ELSE 1 + log2_u16(x \div 2)

\* max_power * 16
search_range_of(num_tables, checks) ==
    LET max_power == max_power_of(num_tables, checks)
    IN  IF max_power < 0 THEN max_power ELSE MulU16(max_power, 16, checks)

entry_selector_of(num_tables, checks) ==
    LET max_power == max_power_of(num_tables, checks)
    IN  IF max_power < 0 THEN max_power ELSE log2_u16(max_power)

\* num_tables * 16 - search_range, after search_range was computed
range_shift_of(num_tables, checks) ==
    LET search_range == search_range_of(num_tables, checks)
        product      == MulU16(num_tables, 16, checks)
    IN  IF search_range < 0 THEN search_range
        ELSE IF product < 0 THEN product
        ELSE SubU16(product, search_range, checks)

\* the directory entries of the records rs, in their order
RECURSIVE write_records(_, _)
write_records(rs, header_len) ==
    IF rs = << >> THEN << >>
    ELSE Head(rs).tag \o WriteWord(Head(rs).check_sum)
            \o WriteU32(header_len + Head(rs).offset)
            \o WriteU32(Head(rs).length)
            \o write_records(Tail(rs), header_len)

\* how a computation ended, from its u16 result
Outcome(x) == IF x = Panic THEN "Panic" ELSE IF x = NoReturn THEN "NoReturn" ELSE "Ok"

\* write_header up to the search hints: how the computation ends and, when
\* it returns, searchRange, entrySelector and rangeShift
header_hints(num_tables, checks) ==
    LET search_range   == search_range_of(num_tables, checks)
        entry_selector == entry_selector_of(num_tables, checks)
        range_shift    == range_shift_of(num_tables, checks)
    IN  IF range_shift < 0
        THEN [outcome |-> Outcome(range_shift)]
        ELSE [outcome |-> "Ok", search_range |-> search_range,
              entry_selector |-> entry_selector, range_shift |-> range_shift]

\* write_header, once the hints are computed: sfnt version, numTables,
\* searchRange, entrySelector, rangeShift, then the table records
write_header(f, rs, hints) ==
    LET header_len == 12 + Len(rs) * 16
        num_tables == AsU16(Len(rs))
    IN  WriteU32(IF Outlines(f) = "TrueType" THEN 65536 ELSE 1330926671)
           \o WriteU16(num_tables)
           \o WriteU16(hints.search_range)
           \o WriteU16(hints.entry_selector)
           \o WriteU16(hints.range_shift)
           \o write_records(rs, header_len)

----------------------------------------------------------------------------
(* The returned font.                                                      *)

\* 1 + i as u16 for the char at index k of chars (i = k - 1)
new_index(k, checks) == AddU16(1, AsU16(k - 1), checks)

\* HashMap's collect: a key keeps the value of its last pair
last_pair(cs, c) ==
    CHOOSE k \in 1..Len(cs) : cs[k] = c /\ \A j \in (k + 1)..Len(cs) : cs[j] # c

\* compute_mapping: every char with 1 + its index in chars, the index cast
\* to u16 and the sum a u16, collected into a map; a sum that overflows
\* panics in a build with overflow checks
compute_mapping(cs, checks) ==
    IF \E k \in 1..Len(cs) : new_index(k, checks) = Panic
    THEN [outcome |-> "Panic", map |-> << >>]
    ELSE [outcome |-> "Ok",
          map |-> [c \in { cs[k] : k \in 1..Len(cs) } |->
                      new_index(last_pair(cs, c), checks)]]

\* compute_widths: the widths of the glyphs of gl, up to the first glyph the
\* horizontal metrics do not have
compute_widths(f, gl) ==
    LET stop == FirstOf(gl, { k \in 1..Len(gl) :
                                gl[k] < 0 \/ gl[k] >= Len(FontWidths(f)) })
    IN  Written([k \in 1..(stop - 1) |-> FontWidths(f)[gl[k] + 1]],
                IF stop > Len(gl) THEN NoError
                ELSE InvalidFont("missing glyph width"))

----------------------------------------------------------------------------
(* The flex layouter: layouts, units, results.                             *)

\* Size2D: <<x, y>>
Size2D(x, y) == << x, y >>
Size2DZero == Size2D(0, 0)

\* A Layout: its dimensions and its actions.  A layout that was built for
\* one unit has the unit's text for its actions; the layout of a line has
\* the pairs <<x, layout>> of the layouts it places.
Layout(dimensions, actions) == [dimensions |-> dimensions, actions |-> actions]

\* FlexUnit::Boxed and FlexUnit::Glue
Boxed(layout) == [kind |-> "Boxed", layout |-> layout]
Glue(layout) == [kind |-> "Glue", layout |-> layout]

\* FlexRun { content: vec![], size: Size2D::zero() }
EmptyRun == [content |-> << >>, size |-> Size2DZero]

\* LayoutResult of finish
NoResult == [kind |-> "None", msg |-> ""]
OkResult == [kind |-> "Ok", msg |-> ""]
NotEnoughSpace(msg) == [kind |-> "NotEnoughSpace", msg |-> msg]
\* the error a call on the StackLayouter returned
StackError == [kind |-> "StackError", msg |-> ""]

\* FlexLayouter::new
FlexNew(c) ==
    /\ ctx = c
    /\ usable_width = c.space
    /\ units = << >>
    /\ stack = << >>
    /\ run = EmptyRun
    /\ cached_glue = << >>
    /\ fpc = "new"
    /\ todo = << >>
    /\ unit_index = 0
    /\ depth = 0
    /\ result = NoResult

\* the flex layouter of a run of the subsetter: constructed, never used
FlexIdle == FlexNew([space |-> 0, flex_spacing |-> 0, extra_space |-> FALSE])

----------------------------------------------------------------------------
(* The run of one subsetter.                                               *)

CharSeqs == UNION { [1..n -> Chars] : n \in 0..MaxWork }

\* a list of chars so long that glyphs, one longer, has the first length
\* that does not fit a u16; its char has a composite glyph in ttf0
LongChars == << >> \o [k \in 1..(U16 - 1) |-> 228]

\* Subsetter::subset: the struct as constructed, for one of the lists cs
subset(cs) ==
    /\ font \in FontIds
    /\ chars \in cs
    /\ glyphs = << >>
    /\ records = << >>
    /\ body = << >>
    /\ pc = "run"
    /\ i = 0
    /\ table = << >>
    /\ taken = 0
    /\ err = NoError
    /\ out = NoFont
    /\ FlexIdle

Init == subset(CharSeqs)

\* the runs of Init, and the run for the long list
InitLong == subset(CharSeqs \cup { LongChars })

\* return Err(e): the subsetter is dropped, no font is returned
Fail(e) ==
    /\ pc' = "failed"
    /\ err' = e
    /\ out' = NoFont

\* run without the check of the outlines
CheckOutlines_unchecked ==
    /\ pc = "run"
    /\ pc' = "find_glyphs"
    /\ UNCHANGED <<font, chars, glyphs, records, body, i, table, taken, err, out>>
    /\ UNCHANGED flex_vars

\* run: the check of the outlines
CheckOutlines ==
    /\ pc = "run"
    /\ IF Outlines(font) = "CFF"
       THEN Fail(UnsupportedFont("CFF outlines"))
       ELSE pc' = "find_glyphs" /\ UNCHANGED <<err, out>>
    /\ UNCHANGED <<font, chars, glyphs, records, body, i, table, taken>>
    /\ UNCHANGED flex_vars

\* find_glyphs: the default glyph and the glyphs of the chars
PushGlyphs ==
    /\ pc = "find_glyphs"
    /\ LET r == push_chars(font, chars, << DefaultGlyph(font) >>)
       IN  /\ glyphs' = r.bytes
           /\ IF r.err # NoError
              THEN Fail(r.err)
              ELSE pc' = "composites" /\ UNCHANGED <<err, out>>
    /\ i' = 0
    /\ UNCHANGED <<font, chars, records, body, table, taken>>
    /\ UNCHANGED flex_vars

\* one turn of the work-list loop without  i += 1
CollectComposites_stay ==
    /\ pc = "composites"
    /\ more_glyphs(i, glyphs)
    /\ LET glyph_id == glyphs[i + 1]
       IN  IF ~HasGlyph(font, glyph_id)
           THEN Fail(InvalidFont("missing glyf entry")) /\ UNCHANGED <<glyphs, i>>
           ELSE /\ glyphs' = push_composites(glyphs, GlyfComposites(font, glyph_id))
                /\ i' = i
                /\ UNCHANGED <<pc, err, out>>
    /\ UNCHANGED <<font, chars, records, body, table, taken>>
    /\ UNCHANGED flex_vars

\* find_glyphs: one turn of the work-list loop
CollectComposites ==
    /\ pc = "composites"
    /\ more_glyphs(i, glyphs)
    /\ LET glyph_id == glyphs[i + 1]
       IN  IF ~HasGlyph(font, glyph_id)
           THEN Fail(InvalidFont("missing glyf entry")) /\ UNCHANGED <<glyphs, i>>
           ELSE /\ glyphs' = push_composites(glyphs, GlyfComposites(font, glyph_id))
                /\ i' = i + 1
                /\ UNCHANGED <<pc, err, out>>
    /\ UNCHANGED <<font, chars, records, body, table, taken>>
    /\ UNCHANGED flex_vars

\* find_glyphs: the work-list loop ends, find_glyphs returns Ok
CompositesDone ==
    /\ pc = "composites"
    /\ ~more_glyphs(i, glyphs)
    /\ pc' = "tables"
    /\ UNCHANGED <<font, chars, glyphs, records, body, i, table, taken, err, out>>
    /\ UNCHANGED flex_vars

\* run: one turn of the loop over the caller's tags, the iterator yielding t;
\* write_table_body frames what the writer appended
SubsetTable(t) ==
    /\ pc = "tables"
    /\ Len(chars) + taken < MaxWork
    /\ taken < MaxTags
    /\ table' = t
    /\ taken' = taken + 1
    /\ IF ~ParseOk(t)
       THEN Fail(UnsupportedTable(t)) /\ UNCHANGED <<body, records>>
       ELSE IF ~contains_table(font, t)
       THEN UNCHANGED <<body, records, pc, err, out>>
       ELSE LET w     == subset_table(font, glyphs, chars, t)
                start == Len(body)
            IN  IF w.err # NoError
                THEN Fail(w.err) /\ body' = body \o w.bytes /\ UNCHANGED records
                ELSE /\ body' = body \o w.bytes \o Padding(Len(w.bytes))
                     /\ records' = Append(records, TableRecord(t, start, w.bytes))
                     /\ UNCHANGED <<pc, err, out>>
    /\ UNCHANGED <<font, chars, glyphs, i>>
    /\ UNCHANGED flex_vars

\* the run ends without a result: a panic, or a loop that never ends
Abort(outcome) ==
    /\ pc' = (IF outcome = "Panic" THEN "panicked" ELSE "no_return")
    /\ UNCHANGED <<err, out>>

\* run: the caller's tags are exhausted; write_header prepends the header,
\* in a build with overflow checks or in one without
WriteHeader ==
    /\ pc = "tables"
    /\ \E hints \in { header_hints(AsU16(Len(records)), checks) : checks \in BOOLEAN } :
          IF hints.outcome # "Ok"
          THEN Abort(hints.outcome) /\ UNCHANGED body
          ELSE /\ body' = write_header(font, records, hints) \o body
               /\ pc' = "package"
               /\ UNCHANGED <<err, out>>
    /\ UNCHANGED <<font, chars, glyphs, records, i, table, taken>>
    /\ UNCHANGED flex_vars

\* run: the font returned, unless compute_mapping panics or compute_widths
\* fails
Package ==
    /\ pc = "package"
    /\ \E mapping \in { compute_mapping(chars, checks) : checks \in BOOLEAN } :
          LET w == compute_widths(font, glyphs)
          IN  IF mapping.outcome # "Ok"
              THEN Abort(mapping.outcome)
              ELSE IF w.err # NoError
              THEN Fail(w.err)
              ELSE /\ pc' = "done"
                   /\ out' = [some |-> TRUE,
                              program |-> body,
                              mapping |-> mapping.map,
                              widths |-> w.bytes,
                              default_glyph |-> DefaultGlyph(font)]
                   /\ UNCHANGED err
    /\ UNCHANGED <<font, chars, glyphs, records, body, i, table, taken>>
    /\ UNCHANGED flex_vars

Next ==
    \/ CheckOutlines
    \/ PushGlyphs
    \/ CollectComposites
    \/ CompositesDone
    \/ \E t \in Requests : SubsetTable(t)
    \/ WriteHeader
    \/ Package

Spec == Init /\ [][Next]_vars

\* the subsetter run on the short lists and on the long one
SpecLong == InitLong /\ [][Next]_vars

\* find_glyphs is sequential code that runs on: a turn of its work-list
\* loop that can be taken is taken, and so is the loop's exit.
SpecFair == Init /\ [][Next]_vars /\ WF_vars(CollectComposites \/ CompositesDone)

\* the subsetter of a run of the flex layouter: none is running
SubsetterIdle ==
    /\ font = "ttf0"
    /\ chars = << >>
    /\ glyphs = << >>
    /\ records = << >>
    /\ body = << >>
    /\ pc = "none"
    /\ i = 0
    /\ table = << >>
    /\ taken = 0
    /\ err = NoError
    /\ out = NoFont

----------------------------------------------------------------------------
(* The run of one flex layouter.                                           *)

\* Bounds of the model: the units a caller adds, and the calls of
\* layout_box the call stack holds.
MaxUnits == 3
MaxDepth == 3

\* The widths and heights of the layouts a caller adds, the width of the
\* space and the line spacing.
Widths == { 1, 2, 4 }
Heights == { 1, 2 }
SpaceWidths == { 3 }
FlexSpacings == { 1 }

\* the layouts added with add and with add_glue: words and spaces
BoxLayouts == { Layout(Size2D(x, y), << "word" >>) : x \in Widths, y \in Heights }
GlueLayouts == { Layout(Size2D(x, y), << "space" >>) : x \in Widths, y \in Heights }

\* FlexContext: space is space.usable().x, extra_space is extra_space.is_some()
FlexContexts ==
    [space : SpaceWidths, flex_spacing : FlexSpacings, extra_space : BOOLEAN]

\* StackLayouter::add and StackLayouter::finish_layout, when they return Ok:
\* the call is recorded
stack_add(s, layout) == Append(s, [call |-> "add", layout |-> layout])
stack_finish_layout(s) ==
    Append(s, [call |-> "finish_layout", layout |-> Layout(Size2DZero, << >>)])

\* overflows_line
overflows_line(line) == line > usable_width

\* crate::size::max
SizeMax(a, b) == IF a > b THEN a ELSE b

\* add_to_run: the run r with the layout placed at its end
add_to_run(r, layout) ==
    [content |-> Append(r.content, << r.size[1], layout >>),
     size    |-> Size2D(r.size[1] + layout.dimensions[1],
                        SizeMax(r.size[2], layout.dimensions[2]))]

\* flush_glue: the run r after the cached glue cg was taken
flush_glue(r, cg) ==
    IF cg # << >> /\ ~overflows_line(r.size[1] + cg[1].dimensions[1])
    THEN add_to_run(r, cg[1])
    ELSE r

\* finish_run: the layout of the run r that is handed to the stack
run_layout(r) ==
    Layout(Size2D(r.size[1], r.size[2] + ctx.flex_spacing), r.content)

\* finish_run: the run r when stack.add has returned an error
run_drained(r) ==
    [content |-> << >>, size |-> Size2D(r.size[1], r.size[2] + ctx.flex_spacing)]

\* finish has returned Err(e)
FlexFail(e) ==
    /\ fpc' = "failed"
    /\ result' = e
    /\ depth' = 0

\* layout_box returns Ok to the loop of finish
FlexReturn ==
    /\ fpc' = "units"
    /\ depth' = 0
    /\ UNCHANGED result

\* layout_box for the box boxed, as the d-th call on the call stack, up to
\* its return or its call of itself; ok is whether the call it makes on the
\* stack returns Ok
layout_box(boxed, d, ok) ==
    LET glue_width == IF cached_glue = << >> THEN 0 ELSE cached_glue[1].dimensions[1]
        new_line_width == run.size[1] + glue_width + boxed.dimensions[1]
    IN  IF overflows_line(new_line_width)
        THEN /\ cached_glue' = << >>
             /\ IF overflows_line(boxed.dimensions[1])
                THEN IF ctx.extra_space
                     THEN IF ok
                          THEN /\ stack' = stack_finish_layout(stack)
                               /\ fpc' = "layout_box"
                               /\ depth' = d
                               /\ UNCHANGED <<run, result>>
                          ELSE FlexFail(StackError) /\ UNCHANGED <<run, stack>>
                     ELSE /\ FlexFail(NotEnoughSpace("cannot fit box into flex run"))
                          /\ UNCHANGED <<run, stack>>
                ELSE IF ok
                     THEN /\ stack' = stack_add(stack, run_layout(run))
                          /\ run' = add_to_run(EmptyRun, boxed)
                          /\ FlexReturn
                     ELSE /\ FlexFail(StackError)
                          /\ run' = run_drained(run)
                          /\ UNCHANGED stack
        ELSE /\ run' = add_to_run(flush_glue(run, cached_glue), boxed)
             /\ cached_glue' = << >>
             /\ FlexReturn
             /\ UNCHANGED stack

\* FlexLayouter::new, for every context
FlexInit ==
    /\ SubsetterIdle
    /\ \E c \in FlexContexts : FlexNew(c)

\* add
Add(layout) ==
    /\ fpc = "new"
    /\ Len(units) < MaxUnits
    /\ units' = Append(units, Boxed(layout))
    /\ UNCHANGED <<ctx, usable_width, stack, run, cached_glue, fpc, todo, unit_index,
                   depth, result>>
    /\ UNCHANGED subset_vars

\* add_glue
AddGlue(glue) ==
    /\ fpc = "new"
    /\ Len(units) < MaxUnits
    /\ units' = Append(units, Glue(glue))
    /\ UNCHANGED <<ctx, usable_width, stack, run, cached_glue, fpc, todo, unit_index,
                   depth, result>>
    /\ UNCHANGED subset_vars

\* finish: the units are moved out of the layouter
FinishBegin ==
    /\ fpc = "new"
    /\ todo' = units
    /\ units' = << >>
    /\ unit_index' = 0
    /\ fpc' = "units"
    /\ UNCHANGED <<ctx, usable_width, stack, run, cached_glue, depth, result>>
    /\ UNCHANGED subset_vars

\* finish: the loop takes a glue unit; layout_glue
FinishGlue ==
    /\ fpc = "units"
    /\ unit_index < Len(todo)
    /\ todo[unit_index + 1].kind = "Glue"
    /\ unit_index' = unit_index + 1
    /\ run' = flush_glue(run, cached_glue)
    /\ cached_glue' = << todo[unit_index + 1].layout >>
    /\ UNCHANGED <<ctx, usable_width, units, stack, fpc, todo, depth, result>>
    /\ UNCHANGED subset_vars

\* finish: the loop takes a boxed unit and calls layout_box
FinishBoxed(ok) ==
    /\ fpc = "units"
    /\ unit_index < Len(todo)
    /\ todo[unit_index + 1].kind = "Boxed"
    /\ unit_index' = unit_index + 1
    /\ layout_box(todo[unit_index + 1].layout, 1, ok)
    /\ UNCHANGED <<ctx, usable_width, units, todo>>
    /\ UNCHANGED subset_vars

\* layout_box: the call of itself after stack.finish_layout(true)
LayoutBoxAgain(ok) ==
    /\ fpc = "layout_box"
    /\ depth < MaxDepth
    /\ layout_box(todo[unit_index].layout, depth + 1, ok)
    /\ UNCHANGED <<ctx, usable_width, units, todo, unit_index>>
    /\ UNCHANGED subset_vars

\* finish: the units are exhausted; finish_run hands the last line to the
\* stack, then stack.finish returns the result (ok_add, ok_finish: whether
\* stack.add and stack.finish return Ok)
FinishEnd(ok_add, ok_finish) ==
    /\ fpc = "units"
    /\ unit_index = Len(todo)
    /\ IF ~ok_add
       THEN /\ run' = run_drained(run)
            /\ fpc' = "failed"
            /\ result' = StackError
            /\ UNCHANGED stack
       ELSE /\ stack' = stack_add(stack, run_layout(run))
            /\ run' = EmptyRun
            /\ IF ok_finish
               THEN fpc' = "done" /\ result' = OkResult
               ELSE fpc' = "failed" /\ result' = StackError
    /\ UNCHANGED <<ctx, usable_width, units, cached_glue, todo, unit_index, depth>>
    /\ UNCHANGED subset_vars

FlexNext ==
    \/ \E layout \in BoxLayouts : Add(layout)
    \/ \E glue \in GlueLayouts : AddGlue(glue)
    \/ FinishBegin
    \/ FinishGlue
    \/ \E ok \in BOOLEAN : FinishBoxed(ok)
    \/ \E ok \in BOOLEAN : LayoutBoxAgain(ok)
    \/ \E ok_add, ok_finish \in BOOLEAN : FinishEnd(ok_add, ok_finish)

SpecFlex == FlexInit /\ [][FlexNext]_vars

----------------------------------------------------------------------------
(* Reading the output back, for the properties below.                      *)

\* find_glyphs has returned Ok and no later step has failed
GlyphsFound == pc \in { "tables", "package", "done" }

\* the length of the header once write_header has run, 0 before
HeaderLen == IF pc \in { "package", "done" } THEN 12 + 16 * Len(records) ELSE 0

\* the unpadded bytes of the table of the k-th record, as they stand in body
TableBytes(k) ==
    Slice(body, HeaderLen + records[k].offset,
                HeaderLen + records[k].offset + records[k].length)

\* the indices of the records with a given tag
RecordsOf(tag) == { k \in 1..Len(records) : records[k].tag = tag }

\* the directory of a written file p: its k-th entry (from 0) and its fields
DirCount(p) == ReadU16(p, 4)
DirTag(p, k) == Slice(p, 12 + 16 * k, 16 + 16 * k)
DirCheckSum(p, k) == ReadWord(p, 16 + 16 * k)
DirOffset(p, k) == ReadU32(p, 20 + 16 * k)
DirLength(p, k) == ReadU32(p, 24 + 16 * k)

Range(seq) == { seq[k] : k \in 1..Len(seq) }

----------------------------------------------------------------------------
(* C1 (stated as claimed; the code breaks it): when subset succeeds, the   *)
(* table records of the output directory are in ascending bytewise tag     *)
(* order, whatever the order of the requested tags.                        *)
C1_DirectorySorted ==
    pc = "done" =>
        \A k \in 0..(DirCount(out.program) - 2) :
            ~TagLess(DirTag(out.program, k + 1), DirTag(out.program, k))

----------------------------------------------------------------------------
(* C2.  The tags the subsetter recognizes, as the claim lists them.        *)
RecognizedTags ==
    { TagHead, TagName, TagOS2, TagPost, TagCvt, TagFpgm, TagPrep, TagGasp,
      TagHhea, TagMaxp, TagHmtx, TagCmap, TagGlyf, TagLoca }

\* a four-byte ASCII string
WellFormed(t) == Len(t) = 4 /\ \A k \in 1..Len(t) : t[k] <= 127

(* C2 (stated as claimed; refuted): a requested tag that is not recognized *)
(* or not a 4-byte ASCII string makes subset fail with UnsupportedTable,   *)
(* whether or not the input's directory has a table with that tag.         *)
C2_UnknownTagAlwaysFails ==
    (taken > 0 /\ (table \notin RecognizedTags \/ ~WellFormed(table))) =>
        (pc = "failed" /\ err = UnsupportedTable(table))

(* C2 (amended): a requested string that is not a 4-byte ASCII tag makes   *)
(* subset fail with UnsupportedTable; a well-formed tag that is not        *)
(* recognized makes it fail with UnsupportedTable exactly when the input's *)
(* directory has a table with that tag; every well-formed tag the input    *)
(* does not have, recognized or not, is skipped: no error, no record, no   *)
(* byte.                                                                   *)
C2_UnknownTagFailsIfPresent ==
    [][ taken' = taken + 1 =>
          IF ~WellFormed(table') \/
             (table' \notin RecognizedTags /\ table' \in FontTables(font))
          THEN pc' = "failed" /\ err' = UnsupportedTable(table')
          ELSE IF table' \notin FontTables(font)
          THEN pc' = "tables" /\ err' = NoError /\ out' = NoFont
                 /\ records' = records /\ body' = body
          ELSE err'.kind # "UnsupportedTable" ]_vars

\* an unrecognized tag the input has was requested after a table was
\* written, and the run failed on it
C2_Witness ==
    /\ pc = "failed"
    /\ table = TagDSIG
    /\ TagDSIG \in FontTables(font)
    /\ err = UnsupportedTable(TagDSIG)
    /\ Len(records) > 0

----------------------------------------------------------------------------
(* C3.  The entries of a loca table, read in the format of the input's     *)
(* head table: a u16 holding half the offset, or a u32 holding the offset. *)
LocaEntrySize == IF IndexToLocFormat(font) = 0 THEN 2 ELSE 4

LocaEntry(t, n) ==
    IF IndexToLocFormat(font) = 0 THEN 2 * ReadU16(t, 2 * n) ELSE ReadU32(t, 4 * n)

(* C3 (stated as claimed; the code breaks it): the rewritten loca has      *)
(* exactly glyphs.len() + 1 entries, all in the input's indexToLocFormat,  *)
(* so its unpadded length is 2 or 4 times glyphs.len() + 1.                *)
C3_LocaEntryCount ==
    GlyphsFound =>
        \A k \in RecordsOf(TagLoca) :
            records[k].length = LocaEntrySize * (Len(glyphs) + 1)

----------------------------------------------------------------------------
(* C4.  The bytes of the input glyphs gl[1..n], added up.                  *)
RECURSIVE GlyphBytes(_, _)
GlyphBytes(gl, n) ==
    IF n = 0 THEN 0 ELSE GlyphBytes(gl, n - 1) + Len(GlyphData(font)[gl[n] + 1])

(* C4 (stated as claimed; broken by the code bug of C3): with glyf and     *)
(* loca both rewritten, entry i of the new loca is the number of bytes     *)
(* subset_glyf appended for glyphs[0..i), and the last entry is the        *)
(* unpadded length of the new glyf.                                        *)
C4_LocaMatchesGlyf ==
    GlyphsFound =>
        \A l \in RecordsOf(TagLoca) : \A g \in RecordsOf(TagGlyf) :
            /\ records[g].length = GlyphBytes(glyphs, Len(glyphs))
            /\ \A n \in 0..Len(glyphs) :
                 LocaEntry(TableBytes(l), n) = GlyphBytes(glyphs, n)

\* the same, the last entry of a short-format loca left out
C4_ButShortSentinel ==
    GlyphsFound =>
        \A l \in RecordsOf(TagLoca) : \A g \in RecordsOf(TagGlyf) :
            /\ records[g].length = GlyphBytes(glyphs, Len(glyphs))
            /\ \A n \in 0..Len(glyphs) :
                 (n < Len(glyphs) \/ IndexToLocFormat(font) = 1) =>
                     LocaEntry(TableBytes(l), n) = GlyphBytes(glyphs, n)

----------------------------------------------------------------------------
(* C5.  glyphs is closed under composite references: every glyph of it is  *)
(* a glyph of the font, and every component of its glyf entry is in glyphs. *)
GlyphsClosed ==
    \A g \in Range(glyphs) :
        /\ 0 <= g /\ g < Len(GlyphData(font))
        /\ \A c \in Range(GlyfComposites(font, g)) : c \in Range(glyphs)

(* C5 (stated as claimed; the code breaks it): after find_glyphs succeeds, *)
(* glyphs is closed under composite references: every component of the    *)
(* glyf entry of a glyph of glyphs is in glyphs, those reached only        *)
(* through other components included.                                      *)
C5_GlyphsClosed == GlyphsFound => GlyphsClosed

\* what the code does keep: glyphs is closed after find_glyphs succeeded
\* whenever its length fits a u16, nested and cyclic composites included
C5_ButLengthPastU16 == (GlyphsFound /\ Len(glyphs) < U16) => GlyphsClosed

\* the closure of a list whose length fits: a glyph that only a component
\* of a component names was collected
C5_ClosedShortList ==
    /\ pc = "done"
    /\ font = "ttf0"
    /\ chars = << 228 >>
    /\ glyphs = << 0, 3, 1, 4, 5 >>

\* find_glyphs returned Ok without a turn of its loop: glyphs.len() as u16
\* is 0, and the components of the composite glyph 3 are not in glyphs
C5_LoopSkipped ==
    /\ pc = "tables"
    /\ font = "ttf0"
    /\ Len(glyphs) = U16
    /\ i = 0
    /\ 3 \in Range(glyphs)
    /\ 1 \notin Range(glyphs)

----------------------------------------------------------------------------
(* C6.  The chars the input's character map does not have.                 *)
Unmapped == { k \in 1..Len(chars) : \A p \in CharMapPairs(font) : p[1] # chars[k] }

(* C6: after find_glyphs succeeds, glyphs[0] is the default glyph,         *)
(* glyphs[i+1] is the glyph the character map gives chars[i], and every    *)
(* entry past the chars is a composite dependency that differs from every  *)
(* other entry; when a requested char is unmapped, find_glyphs fails with  *)
(* MissingCharacter for the first such char.                               *)
C6_GlyphsLayout ==
    /\ GlyphsFound =>
         /\ Len(glyphs) >= 1 + Len(chars)
         /\ glyphs[1] = DefaultGlyph(font)
         /\ \A k \in 1..Len(chars) : << chars[k], glyphs[k + 1] >> \in CharMapPairs(font)
         /\ \A k \in (Len(chars) + 2)..Len(glyphs) :
              /\ \A j \in 1..Len(glyphs) : j # k => glyphs[j] # glyphs[k]
              /\ \E j \in 1..(k - 1) : glyphs[k] \in Range(GlyfComposites(font, glyphs[j]))
    /\ (Unmapped # { } /\ pc \notin { "run", "find_glyphs" } /\ Outlines(font) = "TrueType") =>
         /\ pc = "failed"
         /\ \E k \in Unmapped :
              /\ \A j \in Unmapped : k <= j
              /\ err = MissingCharacter(chars[k])

\* two chars, one of them repeated, and composite dependencies after them
C6_Witness ==
    /\ pc = "tables"
    /\ Len(chars) >= 2
    /\ chars[1] = chars[2]
    /\ Len(glyphs) > 1 + Len(chars)

----------------------------------------------------------------------------
(* C7.  The search hints of a written file.                                *)
SearchRange(p) == ReadU16(p, 6)
EntrySelector(p) == ReadU16(p, 8)
RangeShift(p) == ReadU16(p, 10)

\* 2^e is the largest power of two not exceeding n, at least 1
LargestPow2(e, n) ==
    /\ Pow2(e) <= (IF n < 1 THEN 1 ELSE n)
    /\ (IF n < 1 THEN 1 ELSE n) < Pow2(e + 1)

(* C7 (stated as claimed; refuted): for every number of table records,     *)
(* zero included, searchRange = 2^entrySelector * 16 and rangeShift =      *)
(* numTables * 16 - searchRange, 2^entrySelector being the largest power   *)
(* of two not exceeding numTables (minimum 1).                             *)
C7_SearchHints ==
    pc \in { "package", "done" } =>
        /\ DirCount(body) = Len(records)
        /\ LargestPow2(EntrySelector(body), DirCount(body))
        /\ SearchRange(body) = Pow2(EntrySelector(body)) * 16
        /\ RangeShift(body) = DirCount(body) * 16 - SearchRange(body)

(* C7 (amended): the same for every number of table records of at least    *)
(* one; with no record, searchRange and rangeShift are both 0.             *)
C7_SearchHintsNonEmpty ==
    pc \in { "package", "done" } =>
        /\ DirCount(body) = Len(records)
        /\ DirCount(body) >= 1 =>
             /\ LargestPow2(EntrySelector(body), DirCount(body))
             /\ SearchRange(body) = Pow2(EntrySelector(body)) * 16
             /\ RangeShift(body) = DirCount(body) * 16 - SearchRange(body)
        /\ DirCount(body) = 0 => SearchRange(body) = 0 /\ RangeShift(body) = 0

\* a header for three records: the range shift is not zero
C7_Witness ==
    /\ pc = "done"
    /\ Len(records) = 3
    /\ RangeShift(out.program) = 16

----------------------------------------------------------------------------
(* C8.  The sum modulo 2^32 of the big-endian u32 words of d, from the     *)
(* sums of their high and low halves.                                      *)
RECURSIVE SumU16(_, _)
SumU16(d, p) == IF p + 2 > Len(d) THEN 0 ELSE ReadU16(d, p) + SumU16(d, p + 4)

WordSum(d) ==
    << (SumU16(d, 0) + (SumU16(d, 2) \div 65536)) % 65536, SumU16(d, 2) % 65536 >>

\* where the table after the k-th one starts in a written file p
NextTableStart(p, k) == IF k + 1 < DirCount(p) THEN DirOffset(p, k + 1) ELSE Len(p)

(* C8: in the output file every directory record describes its table: the  *)
(* offset is the absolute position where the table's bytes start (the      *)
(* tables follow the 12 + 16 * numTables bytes of the header one after the *)
(* other) and a multiple of 4, the length is the number of bytes the       *)
(* table's writer produced, fewer than 4 zero bytes pad it up to the next  *)
(* table or the end of the file, and the checksum is the sum modulo 2^32   *)
(* of the big-endian u32 words of the padded table.                        *)
C8_RecordsDescribeTables ==
    pc = "done" =>
        LET p == out.program
            n == DirCount(p)
        IN  /\ n = Len(records)
            /\ n = 0 => Len(p) = 12
            /\ n > 0 => DirOffset(p, 0) = 12 + 16 * n
            /\ \A k \in 0..(n - 1) :
                 LET from == DirOffset(p, k)
                     to   == DirOffset(p, k) + DirLength(p, k)
                     next == NextTableStart(p, k)
                 IN  /\ from % 4 = 0
                     /\ to <= next /\ next - to < 4 /\ next % 4 = 0
                     /\ \A j \in (to + 1)..next : p[j] = 0
                     /\ Slice(p, from, to)
                          = subset_table(font, glyphs, chars, DirTag(p, k)).bytes
                     /\ DirCheckSum(p, k) = WordSum(Slice(p, from, next))

\* a padded table whose checksum wraps around, followed by another table
C8_Witness ==
    /\ pc = "done"
    /\ Len(records) >= 2
    /\ records[1].tag = TagName
    /\ records[1].length % 4 = 1
    /\ SumU16(RawTable(font, TagName), 0) >= 65536

----------------------------------------------------------------------------
(* C9.  The format 12 subtable of a cmap table t and its groups.           *)
NumGroups(t) == ReadU32(t, 24)
StartChar(t, j) == ReadU32(t, 28 + 12 * j)
EndChar(t, j) == ReadU32(t, 32 + 12 * j)
StartGlyph(t, j) == ReadU32(t, 36 + 12 * j)

\* the positions of chars (from 0) where a run of consecutive chars starts
RunStarts == { q \in 0..(Len(chars) - 1) : q = 0 \/ chars[q + 1] # chars[q] + 1 }

\* the last position of the run that starts at position q
RunLast(q) ==
    (CHOOSE r \in RunStarts \cup { Len(chars) } :
        r > q /\ \A x \in RunStarts : x > q => r <= x) - 1

(* C9: subset_cmap emits one format 12 group per maximal run of            *)
(* consecutive chars, in the order of chars: the group of the run from     *)
(* position p to position q is (chars[p], chars[q], 1 + p); the groups     *)
(* cover every position once, no two neighbours could be merged, numGroups *)
(* is the number of runs g and the subtable length is 16 + 12 * g.         *)
C9_CmapGroups ==
    GlyphsFound =>
        \A k \in RecordsOf(TagCmap) :
            LET t == TableBytes(k)
                g == NumGroups(t)
            IN  /\ ReadU16(t, 12) = 12
                /\ g = Cardinality(RunStarts)
                /\ ReadU32(t, 16) = 16 + 12 * g
                /\ Len(t) = 28 + 12 * g
                /\ g > 0 => StartGlyph(t, 0) = 1
                /\ \A j \in 0..(g - 1) :
                     LET first == StartGlyph(t, j) - 1
                         last  == RunLast(first)
                     IN  /\ first \in RunStarts
                         /\ StartChar(t, j) = chars[first + 1]
                         /\ EndChar(t, j) = chars[last + 1]
                         /\ EndChar(t, j) - StartChar(t, j) = last - first
                         /\ IF j + 1 < g
                            THEN /\ StartGlyph(t, j + 1) = last + 2
                                 /\ StartChar(t, j + 1) # EndChar(t, j) + 1
                            ELSE last = Len(chars) - 1

\* a run of two chars and a run of one: a b and the double exclamation mark
C9_Witness ==
    /\ pc = "done"
    /\ chars = << 97, 98, 8252 >>
    /\ RecordsOf(TagCmap) # { }

----------------------------------------------------------------------------
(* C10.  The glyph a cmap table t gives a char c: that of the first group  *)
(* that holds c.                                                           *)
GroupsWith(t, c) ==
    { j \in 0..(NumGroups(t) - 1) : StartChar(t, j) <= c /\ c <= EndChar(t, j) }

CmapLookup(t, c) ==
    LET j == CHOOSE x \in GroupsWith(t, c) : \A y \in GroupsWith(t, c) : x <= y
    IN  StartGlyph(t, j) + c - StartChar(t, j)

\* 1 + the index in chars (from 0) of the last occurrence of c
LastIndexPlus1(c) ==
    CHOOSE k \in 1..Len(chars) : chars[k] = c /\ \A j \in (k + 1)..Len(chars) : chars[j] # c

(* C10 (stated as claimed; the code breaks it): for every requested char c *)
(* the new cmap and output.mapping give the same new glyph id, 1 + the     *)
(* index of c in chars (the last one for a repeated char), for every chars *)
(* sequence, unsorted ones and ones with repeated chars included.          *)
C10_CmapAgreesWithMapping ==
    pc = "done" =>
        \A k \in RecordsOf(TagCmap) : \A c \in Range(chars) :
            /\ GroupsWith(TableBytes(k), c) # { }
            /\ out.mapping[c] = LastIndexPlus1(c)
            /\ CmapLookup(TableBytes(k), c) = out.mapping[c]

\* the same for the chars sequences that repeat no char
C10_ButRepeatedChars ==
    (pc = "done" /\ \A a, b \in 1..Len(chars) : a # b => chars[a] # chars[b]) =>
        \A k \in RecordsOf(TagCmap) : \A c \in Range(chars) :
            /\ GroupsWith(TableBytes(k), c) # { }
            /\ out.mapping[c] = LastIndexPlus1(c)
            /\ CmapLookup(TableBytes(k), c) = out.mapping[c]

----------------------------------------------------------------------------
(* C11.  The per-glyph counts read back from the written tables.           *)
\* numGlyphs of a maxp table t
MaxpNumGlyphs(t) == ReadU16(t, 4)

\* numberOfHMetrics of a hhea table t: its last two bytes
HheaNumberOfHMetrics(t) == ReadU16(t, Len(t) - 2)

\* the 4-byte long-metric records of a hmtx table t
HmtxRecords(t) == Len(t) \div 4

\* the entries of a loca table t, in the format of the input's head table
LocaEntries(t) == Len(t) \div LocaEntrySize

(* C11 (stated as claimed; broken by the code bug of C3): after a          *)
(* successful subset the numGlyphs of the new maxp, the numberOfHMetrics   *)
(* of the new hhea, the number of 4-byte records of the new hmtx, the      *)
(* number of entries of the new loca minus one and the length of           *)
(* output.widths all equal glyphs.len(), which is at least 1 + the number  *)
(* of distinct requested chars.                                            *)
C11_CountsAgree ==
    pc = "done" =>
        /\ \A k \in RecordsOf(TagMaxp) : MaxpNumGlyphs(TableBytes(k)) = Len(glyphs)
        /\ \A k \in RecordsOf(TagHhea) : HheaNumberOfHMetrics(TableBytes(k)) = Len(glyphs)
        /\ \A k \in RecordsOf(TagHmtx) :
             /\ Len(TableBytes(k)) % 4 = 0
             /\ HmtxRecords(TableBytes(k)) = Len(glyphs)
        /\ \A k \in RecordsOf(TagLoca) : LocaEntries(TableBytes(k)) - 1 = Len(glyphs)
        /\ Len(out.widths) = Len(glyphs)
        /\ Len(glyphs) >= 1 + Cardinality(Range(chars))

\* the same, the entries of a short-format loca left out
C11_ButShortLoca ==
    pc = "done" =>
        /\ \A k \in RecordsOf(TagMaxp) : MaxpNumGlyphs(TableBytes(k)) = Len(glyphs)
        /\ \A k \in RecordsOf(TagHhea) : HheaNumberOfHMetrics(TableBytes(k)) = Len(glyphs)
        /\ \A k \in RecordsOf(TagHmtx) :
             /\ Len(TableBytes(k)) % 4 = 0
             /\ HmtxRecords(TableBytes(k)) = Len(glyphs)
        /\ \A k \in RecordsOf(TagLoca) :
             IndexToLocFormat(font) = 1 => LocaEntries(TableBytes(k)) - 1 = Len(glyphs)
        /\ Len(out.widths) = Len(glyphs)
        /\ Len(glyphs) >= 1 + Cardinality(Range(chars))

----------------------------------------------------------------------------
(* C12: a font with CFF outlines makes subset fail with UnsupportedFont    *)
(* before find_glyphs runs and before any byte or record is appended:      *)
(* glyphs, records and body are empty and no item was taken from the       *)
(* caller's tag iterator, whatever chars were requested; and on every      *)
(* failure no font is returned.                                            *)
C12_CffFailsFirst ==
    /\ (Outlines(font) = "CFF" /\ pc # "run") =>
         /\ pc = "failed"
         /\ err = UnsupportedFont("CFF outlines")
         /\ glyphs = << >> /\ i = 0
         /\ records = << >> /\ body = << >>
         /\ taken = 0 /\ table = << >>
    /\ pc = "failed" => (err # NoError /\ out = NoFont)
    /\ out.some => (pc = "done" /\ err = NoError)

\* a CFF font was refused although a char the font does not map was requested
C12_Witness ==
    /\ font = "cff"
    /\ pc = "failed"
    /\ err.kind = "UnsupportedFont"
    /\ \E k \in 1..Len(chars) : CharMapGet(font, chars[k]) = None

----------------------------------------------------------------------------
(* C13.  The lines the flex layouter handed to the stack: the content of   *)
(* the k-th call on the stack when it is an add, and whether what a line   *)
(* places at a position is a glue.                                         *)
IsLine(k) == stack[k].call = "add"
LineContent(k) == stack[k].layout.actions
IsGlueAt(k, n) == LineContent(k)[n][2].actions = << "space" >>

(* C13 (stated as claimed; the code breaks it): after finish, a glue is in *)
(* a line only if a boxed layout follows it on that line: no line starts   *)
(* with a glue and no line ends with a glue, for every sequence of add and *)
(* add_glue calls, two glues in a row and a glue before any box included.  *)
C13_GlueOnlyBeforeBox ==
    fpc = "done" =>
        \A k \in 1..Len(stack) : IsLine(k) =>
            \A n \in 1..Len(LineContent(k)) : IsGlueAt(k, n) =>
                /\ n > 1
                /\ n < Len(LineContent(k))
                /\ \E m \in (n + 1)..Len(LineContent(k)) : ~IsGlueAt(k, m)

\* the units start with a box and no glue follows a glue
GlueSeparatesBoxes ==
    /\ todo # << >> => todo[1].kind = "Boxed"
    /\ \A u \in 1..(Len(todo) - 1) : ~(todo[u].kind = "Glue" /\ todo[u + 1].kind = "Glue")

\* the same for the runs where every glue directly follows a box
C13_ButLeadingOrRepeatedGlue ==
    (fpc = "done" /\ GlueSeparatesBoxes) =>
        \A k \in 1..Len(stack) : IsLine(k) =>
            \A n \in 1..Len(LineContent(k)) : IsGlueAt(k, n) =>
                /\ n > 1
                /\ n < Len(LineContent(k))
                /\ ~IsGlueAt(k, n - 1)
                /\ ~IsGlueAt(k, n + 1)

\* a line that ends with a glue: a box and two glues were added
C13_LineEndsWithGlue ==
    /\ fpc = "done"
    /\ Len(todo) = 3
    /\ todo[1].kind = "Boxed"
    /\ \E k \in 1..Len(stack) :
          /\ IsLine(k)
          /\ Len(LineContent(k)) = 2
          /\ IsGlueAt(k, 2)

----------------------------------------------------------------------------
(* C14.  The component records of a composite glyph as the claim walks     *)
(* them: after flags and glyphIndex come 4 or 2 argument bytes (flag       *)
(* 0x0001) and 2, 4, 8 or 0 transform bytes (flags 0x0008, 0x0040, 0x0080, *)
(* the first that is set), and another record follows when flag 0x0020 is  *)
(* set.                                                                    *)
ArgumentBytes(flags) == IF (flags % 2) = 1 THEN 4 ELSE 2

TransformBytes(flags) ==
    CASE (flags \div 8) % 2 = 1   -> 2
      [] (flags \div 8) % 2 = 0 /\ (flags \div 64) % 2 = 1 -> 4
      [] (flags \div 8) % 2 = 0 /\ (flags \div 64) % 2 = 0
           /\ (flags \div 128) % 2 = 1 -> 8
      [] OTHER -> 0

\* the positions of the glyphIndex fields of the records chained from the
\* record at position p of the glyph d
RECURSIVE IndexFields(_, _)
IndexFields(d, p) ==
    LET flags == d[p + 1] * 256 + d[p + 2]
    IN  { p + 2 } \cup
        (IF (flags \div 32) % 2 = 1
         THEN IndexFields(d, p + 4 + ArgumentBytes(flags) + TransformBytes(flags))
         ELSE { })

\* the glyphIndex fields of a glyph: none for a simple or empty glyph
IndexFieldsOf(d) ==
    IF Len(d) >= 2 /\ d[1] >= 128 THEN IndexFields(d, 10) ELSE { }

\* the first index (from 0) of the glyph id g in glyphs
FirstIndex(g) == (CHOOSE k \in 1..Len(glyphs) :
                     glyphs[k] = g /\ \A j \in 1..(k - 1) : glyphs[j] # g) - 1

(* C14: in the glyf table that subset_glyf writes, the bytes of every      *)
(* glyph of glyphs stand at the sum of the lengths of the glyphs before    *)
(* it, with the length they have in the input; every glyphIndex field of a *)
(* composite glyph holds the first index in glyphs of the glyph id it held *)
(* in the input, and every other byte is the input's; simple glyphs are    *)
(* copied unchanged; and subset_glyf does not fail once find_glyphs has    *)
(* closed the glyphs.                                                      *)
C14_ComponentsRewritten ==
    /\ ~(pc = "failed" /\ table = TagGlyf)
    /\ GlyphsFound =>
         \A g \in RecordsOf(TagGlyf) :
            /\ records[g].length = GlyphBytes(glyphs, Len(glyphs))
            /\ \A k \in 1..Len(glyphs) :
                 LET d   == GlyphData(font)[glyphs[k] + 1]
                     o   == Slice(TableBytes(g), GlyphBytes(glyphs, k - 1),
                                  GlyphBytes(glyphs, k))
                     cps == IndexFieldsOf(d)
                 IN  /\ Len(o) = Len(d)
                     /\ \A cp \in cps :
                          /\ \E j \in 1..Len(glyphs) : glyphs[j] = ReadU16(d, cp)
                          /\ ReadU16(o, cp) = FirstIndex(ReadU16(d, cp))
                     /\ \A q \in 1..Len(d) :
                          (\A cp \in cps : q # cp + 1 /\ q # cp + 2) => o[q] = d[q]

\* a composite glyph with two components was copied, one of them naming a
\* glyph that is in glyphs twice; another composite of it has instructions
C14_Witness ==
    /\ pc = "done"
    /\ font = "ttf0"
    /\ RecordsOf(TagGlyf) # { }
    /\ \E a, b, c \in 1..Len(glyphs) :
          /\ a < b /\ glyphs[a] = 1 /\ glyphs[b] = 1
          /\ glyphs[c] = 3
    /\ \E c \in 1..Len(glyphs) : glyphs[c] = 4

----------------------------------------------------------------------------
(* C15.  The work-list loop of find_glyphs is running, has ended with the  *)
(* cursor past the last element, has ended on a glyph id the glyf table    *)
(* does not have.                                                          *)
InWorkList == pc = "composites"
WorkListPassed == pc \in { "tables", "package", "done" } /\ i = Len(glyphs)
WorkListFailed == pc = "failed" /\ err = InvalidFont("missing glyf entry")

\* every turn of the loop visits the index after the one visited before and
\* keeps the entries that are there; the loop starts at index 0
VisitsInOrder ==
    /\ (pc = "find_glyphs" /\ pc' = "composites") => i' = 0
    /\ (pc = "composites" /\ pc' = "composites") =>
          /\ i' = i + 1
          /\ Len(glyphs') >= Len(glyphs)
          /\ SubSeq(glyphs', 1, Len(glyphs)) = glyphs
    /\ (pc = "composites" /\ pc' = "tables") => (i = Len(glyphs) /\ glyphs' = glyphs)

\* the entries appended after the chars prefix differ from each other
AppendedOnce ==
    \A a, b \in (Len(chars) + 2)..Len(glyphs) : a # b => glyphs[a] # glyphs[b]

(* C15 (stated as claimed; refuted): for every font the cursor eventually  *)
(* passes the last element of glyphs, and then every index was visited     *)
(* once and the entries appended after the chars prefix are distinct.      *)
C15_CursorPassesLast ==
    /\ InWorkList ~> WorkListPassed
    /\ [][VisitsInOrder]_vars
    /\ [](pc \in { "composites", "tables", "package", "done" } => AppendedOnce)

(* C15 (amended): the work-list loop always ends, with cyclic and          *)
(* self-referencing composites too: either the cursor passes the last      *)
(* element of glyphs, and then every index was visited once, in order, and *)
(* the entries appended after the chars prefix are distinct; or the loop   *)
(* reaches a glyph id the glyf table does not have and find_glyphs fails   *)
(* with InvalidFont.                                                       *)
C15_WorkListEnds ==
    /\ InWorkList ~> (WorkListPassed \/ WorkListFailed)
    /\ [][VisitsInOrder]_vars
    /\ [](pc \in { "composites", "tables", "package", "done" } => AppendedOnce)
    /\ [](pc \in { "tables", "package", "done" } => i = Len(glyphs))

\* the loop has ended for a glyph that is a component of its own component
C15_Witness ==
    /\ pc = "tables"
    /\ font = "ttf1"
    /\ chars = << 228 >>
    /\ glyphs = << 0, 4, 2 >>
    /\ i = 3

----------------------------------------------------------------------------
(* C16.  The box that layout_box is laying out, and the lines handed to    *)
(* the stack.                                                              *)
BoxInHand == todo[unit_index].layout
LineWidth(k) == stack[k].layout.dimensions[1]

(* C16 (stated as claimed; the code breaks it): layout_box always          *)
(* finishes.  For a box wider than the usable width it returns             *)
(* NotEnoughSpace when there is no extra space, and when there is one it   *)
(* places the box in the next space: the call it makes of itself after     *)
(* stack.finish_layout(true) does not ask for a space again.  Every line   *)
(* handed to the stack is at most usable_width wide.                       *)
C16_LayoutBoxFinishes ==
    /\ ~(fpc = "layout_box" /\ depth >= 2)
    /\ \A k \in 1..(Len(stack) - 1) :
          ~(stack[k].call = "finish_layout" /\ stack[k + 1].call = "finish_layout")
    /\ result.kind = "NotEnoughSpace" =>
          (~ctx.extra_space /\ BoxInHand.dimensions[1] > usable_width)
    /\ \A k \in 1..Len(stack) : IsLine(k) => LineWidth(k) <= usable_width

\* what holds of it: layout_box asks for a new space only for a box wider
\* than the usable width when there is an extra space, every line is at
\* most usable_width wide, and NotEnoughSpace is returned only for such a
\* box when there is no extra space
C16_ButTheRetry ==
    /\ fpc = "layout_box" =>
          (ctx.extra_space /\ BoxInHand.dimensions[1] > usable_width
             /\ cached_glue = << >>)
    /\ result.kind = "NotEnoughSpace" =>
          (~ctx.extra_space /\ BoxInHand.dimensions[1] > usable_width)
    /\ \A k \in 1..Len(stack) : IsLine(k) => LineWidth(k) <= usable_width

\* a call of layout_box that follows stack.finish_layout(true) finds the
\* layouter as the call before it left it; it ends only when the stack
\* returns an error, and asks for a space again otherwise
C16_RetryRepeats ==
    [][ fpc = "layout_box" =>
          /\ run' = run /\ cached_glue' = cached_glue
          /\ usable_width' = usable_width /\ unit_index' = unit_index
          /\ \/ (fpc' = "layout_box" /\ depth' = depth + 1
                   /\ stack' = stack_finish_layout(stack))
             \/ (fpc' = "failed" /\ result' = StackError /\ stack' = stack) ]_vars

====
